---- MODULE Spec2Model ----
(***************************************************************************)
(* ShipModule (Hack/Modules/ship.py): the per-ship display record of the   *)
(* ESP overlay.  Two records are modelled, the "near" and the "far" actor  *)
(* of one ship.  Lengths on screen are kept in hundredths of a pixel so    *)
(* that CIRCLE_SIZE / 2 = 12.5 and CIRCLE_SIZE * 1.45 = 36.25 are          *)
(* integers; strings are sequences of one-character strings.               *)
(***************************************************************************)
EXTENDS Integers, Sequences, FiniteSets, TLC

VARIABLES
    actor_id,             \* self.actor_id
    address,              \* self.address
    actor_root_comp_ptr,  \* self.actor_root_comp_ptr
    name,                 \* self.name
    crew_guid,            \* self.crew_guid
    my_coords,            \* self.my_coords
    coords,               \* self.coords
    distance,             \* self.distance
    screen_coords,        \* self.screen_coords, <<>> when off screen
    text_str,             \* self.text_str
    text_render,          \* self.text_render (LabelDefault)
    circle,               \* self.circle (pyglet Circle)
    icon,                 \* self.icon (pyglet Sprite)
    to_delete,            \* self.to_delete
    tracker,              \* Crew.tracker
    last                  \* how the last call on the record ended

vars == <<actor_id, address, actor_root_comp_ptr, name, crew_guid, my_coords,
          coords, distance, screen_coords, text_str, text_render, circle,
          icon, to_delete, tracker, last>>

identity == <<actor_id, address, actor_root_comp_ptr, name, crew_guid>>

-----------------------------------------------------------------------------
(* The input sets.                                                         *)

Ships == {"near", "far"}

NearName == <<"S","l","o","o","p"," ","(","N","e","a","r",")">>
FarName  == <<"S","l","o","o","p">>

ShipName(r) == IF r = "near" THEN NearName ELSE FarName

ShipActorId(r) == IF r = "near" THEN 11 ELSE 12

ShipAddress(r) == IF r = "near" THEN 4096 ELSE 8192

\* The actor ids a read of self.address can return.
ActorIds == {11, 12}

\* Viewer states: a position and the sign of the forward (x) direction.
Viewers == { [x |-> 0,    y |-> 0, z |-> 0, fwd |-> 1],
             [x |-> 350,  y |-> 0, z |-> 0, fwd |-> 1] }

\* World positions a read of the root component can return: three in front
\* of the viewers (at 1749, 1750 and 1751 from the origin) and one behind.
WorldCoords == { [x |-> 1749,  y |-> 0,    z |-> 0],
                 [x |-> 1400,  y |-> 1050, z |-> 0],
                 [x |-> 1751,  y |-> 0,    z |-> 0],
                 [x |-> -1300, y |-> 0,    z |-> 0] }

CrewGuid == "crewA"

Red == <<255, 0, 0, 255>>

\* The states of Crew.tracker: the crew is unknown, or known with a colour.
Trackers == { <<>>, [g \in {CrewGuid} |-> Red] }

-----------------------------------------------------------------------------
(* Helpers                                                                 *)

CIRCLE_SIZE == 25

RECURSIVE isqrt_between(_, _, _)
isqrt_between(n, lo, hi) ==
    IF lo >= hi THEN lo
    ELSE LET mid == (lo + hi + 1) \div 2
         IN  IF mid * mid <= n THEN isqrt_between(n, mid, hi)
                               ELSE isqrt_between(n, lo, mid - 1)

isqrt(n) == isqrt_between(n, 0, IF n < 40000 THEN n ELSE 40000)

\* helpers.calculate_distance: the euclidean distance, as a whole number.
calculate_distance(c, mc) ==
    isqrt((c.x - mc.x) * (c.x - mc.x) + (c.y - mc.y) * (c.y - mc.y)
          + (c.z - mc.z) * (c.z - mc.z))

\* helpers.object_to_screen: a pinhole projection onto a 1000 x 800 window;
\* empty when the target is behind the viewer or outside the field of view.
object_to_screen(mc, c) ==
    LET depth == (c.x - mc.x) * mc.fwd
        right == (c.y - mc.y) * mc.fwd
        up    == c.z - mc.z
    IN  IF depth <= 0 THEN <<>>
        ELSE IF right > depth \/ -right > depth \/ up > depth \/ -up > depth
             THEN <<>>
             ELSE <<500 + (right * 500) \div depth, 400 + (up * 400) \div depth>>

Digit(n) == <<"0","1","2","3","4","5","6","7","8","9">>[n + 1]

RECURSIVE str_int(_)
str_int(n) == IF n < 10 THEN <<Digit(n)>>
              ELSE str_int(n \div 10) \o <<Digit(n % 10)>>

\* sub in s, for sequences of characters
contains(s, sub) ==
    \E i \in 0..(Len(s) - Len(sub)) :
        \A j \in 1..Len(sub) : s[i + j] = sub[j]

-----------------------------------------------------------------------------
(* The three visuals.  deleted counts the delete() calls made on a visual, *)
(* up to MaxDeletes; used_after_delete records an attribute write made     *)
(* after a delete().  The render backend takes every call.                 *)

MaxDeletes == 2

once_more(n) == IF n < MaxDeletes THEN n + 1 ELSE MaxDeletes

delete(v) == [v EXCEPT !.deleted = once_more(@)]

set_visible(v, b) ==
    [v EXCEPT !.visible = b, !.used_after_delete = @ \/ v.deleted > 0]

set_xy(v, p) ==
    [v EXCEPT !.x = p[1], !.y = p[2], !.used_after_delete = @ \/ v.deleted > 0]

set_color(v, c) ==
    [v EXCEPT !.color = c, !.used_after_delete = @ \/ v.deleted > 0]

set_text(v, t) ==
    [v EXCEPT !.text = t, !.used_after_delete = @ \/ v.deleted > 0]

\* Positions written by update(), in hundredths of a pixel.
circle_xy(sc) == <<sc[1] * 100 - (CIRCLE_SIZE * 100) \div 2,
                   sc[2] * 100 - (CIRCLE_SIZE * 100) \div 2>>

icon_xy(sc) == <<sc[1] * 100 - CIRCLE_SIZE * 145,
                 sc[2] * 100 - CIRCLE_SIZE * 145>>

text_xy(sc) == <<sc[1] * 100 + (CIRCLE_SIZE * 100) \div 2 + 1000,
                 sc[2] * 100 + (CIRCLE_SIZE * 100) \div 2 - 3000>>

\* A slip: the unit is left out.
_built_text_string_no_unit(n, d) == n \o <<" ", "-", " ">> \o str_int(d)

_built_text_string(n, d) == n \o <<" ", "-", " ">> \o str_int(d) \o <<"m">>

_build_text_render(sc, t) ==
    LET p == IF sc # <<>> THEN text_xy(sc) ELSE <<0, 0>>
    IN  [visible |-> TRUE, x |-> p[1], y |-> p[2], text |-> t,
         deleted |-> 0, used_after_delete |-> FALSE]

_build_circle_render(sc) ==
    LET p == IF sc # <<>> THEN circle_xy(sc) ELSE <<0, 0>>
    IN  [visible |-> TRUE, x |-> p[1], y |-> p[2], color |-> <<255, 255, 255>>,
         deleted |-> 0, used_after_delete |-> FALSE]

_build_icon_render(sc) ==
    LET p == IF sc # <<>>
             THEN <<sc[1] * 100 - CIRCLE_SIZE * 100, sc[2] * 100 - CIRCLE_SIZE * 100>>
             ELSE <<0, 0>>
    IN  [visible |-> TRUE, x |-> p[1], y |-> p[2],
         deleted |-> 0, used_after_delete |-> FALSE]

-----------------------------------------------------------------------------
(* ShipModule.__init__: the registry builds one record for each actor of   *)
(* S, reading its position and the viewer's coordinates.                   *)

__init__(S) ==
    \E mc \in [S -> Viewers], c \in [S -> WorldCoords] :
        /\ actor_id = [r \in S |-> ShipActorId(r)]
        /\ address = [r \in S |-> ShipAddress(r)]
        /\ actor_root_comp_ptr = [r \in S |-> ShipAddress(r) + 8]
        /\ my_coords = mc
        /\ name = [r \in S |-> ShipName(r)]
        /\ coords = c
        /\ distance = [r \in S |-> calculate_distance(c[r], mc[r])]
        /\ screen_coords = [r \in S |-> object_to_screen(mc[r], c[r])]
        /\ crew_guid = [r \in S |-> CrewGuid]
        /\ text_str = [r \in S |->
               _built_text_string(ShipName(r), calculate_distance(c[r], mc[r]))]
        /\ text_render = [r \in S |->
               _build_text_render(object_to_screen(mc[r], c[r]),
                   _built_text_string(ShipName(r), calculate_distance(c[r], mc[r])))]
        /\ circle = [r \in S |-> _build_circle_render(object_to_screen(mc[r], c[r]))]
        /\ icon = [r \in S |-> _build_icon_render(object_to_screen(mc[r], c[r]))]
        /\ to_delete = [r \in S |-> FALSE]
        /\ tracker \in Trackers
        /\ last = [r \in S |-> "init"]

\* One record, of either actor.
Init == \E r \in Ships : __init__({r})

\* The matched pair: the near and the far actor of one ship.
InitPair == __init__(Ships)

\* The records the registry holds.
Records == DOMAIN to_delete

-----------------------------------------------------------------------------
(* ShipModule.update                                                       *)

contains_near(n) == contains(n, <<"N", "e", "a", "r">>)

\* A slip: the near record hidden below the switch distance.
near_hidden_below(n, d) == contains_near(n) /\ d < 1750

\* "Near" in self.name and new_distance > 1750
near_hidden(n, d) == contains_near(n) /\ d > 1750

\* "Near" not in self.name and new_distance < 1750
far_hidden(n, d) == ~contains_near(n) /\ d < 1750

\* The visibility the on-screen branch gives the three visuals.
switch_visible(n, d) ==
    IF near_hidden(n, d) THEN FALSE
    ELSE IF far_hidden(n, d) THEN FALSE
    ELSE TRUE

\* A slip: the whole colour, alpha included, is written.
crew_color_with_alpha(v, g) ==
    IF g \in DOMAIN tracker THEN set_color(v, tracker[g]) ELSE v

\* The colour of the circle after the crew lookup.
crew_color(v, g) ==
    IF g \in DOMAIN tracker THEN set_color(v, SubSeq(tracker[g], 1, 3)) ELSE v

\* A slip: the icon is not disposed.
update_mismatch_leaks_icon(r) ==
    /\ to_delete' = [to_delete EXCEPT ![r] = TRUE]
    /\ circle' = [circle EXCEPT ![r] = delete(@)]
    /\ text_render' = [text_render EXCEPT ![r] = delete(@)]
    /\ UNCHANGED <<icon, my_coords, coords, distance, screen_coords, text_str>>

\* The identity check failed: mark the record and dispose its visuals.
update_mismatch(r) ==
    /\ to_delete' = [to_delete EXCEPT ![r] = TRUE]
    /\ circle' = [circle EXCEPT ![r] = delete(@)]
    /\ icon' = [icon EXCEPT ![r] = delete(@)]
    /\ text_render' = [text_render EXCEPT ![r] = delete(@)]
    /\ UNCHANGED <<my_coords, coords, distance, screen_coords, text_str>>

\* A slip: the switch is decided on self.distance, the distance of the
\* call before.
update_on_screen_old_distance(r, sc, new_distance) ==
    LET vis == switch_visible(name[r], distance[r])
        str == _built_text_string(name[r], new_distance)
    IN  /\ text_render' = [text_render EXCEPT ![r] =
               set_text(set_xy(set_visible(@, vis), text_xy(sc)), str)]
        /\ icon' = [icon EXCEPT ![r] = set_xy(set_visible(@, vis), icon_xy(sc))]
        /\ circle' = [circle EXCEPT ![r] =
               crew_color(set_xy(set_visible(@, vis), circle_xy(sc)), crew_guid[r])]
        /\ distance' = [distance EXCEPT ![r] = new_distance]
        /\ text_str' = [text_str EXCEPT ![r] = str]

\* A slip: the new distance is shown but not stored.
update_on_screen_keeps_distance(r, sc, new_distance) ==
    LET vis == switch_visible(name[r], new_distance)
        str == _built_text_string(name[r], new_distance)
    IN  /\ text_render' = [text_render EXCEPT ![r] =
               set_text(set_xy(set_visible(@, vis), text_xy(sc)), str)]
        /\ icon' = [icon EXCEPT ![r] = set_xy(set_visible(@, vis), icon_xy(sc))]
        /\ circle' = [circle EXCEPT ![r] =
               crew_color(set_xy(set_visible(@, vis), circle_xy(sc)), crew_guid[r])]
        /\ text_str' = [text_str EXCEPT ![r] = str]
        /\ UNCHANGED distance

\* A slip: hidden visuals are not moved.
update_on_screen_moves_if_visible(r, sc, new_distance) ==
    LET vis == switch_visible(name[r], new_distance)
        str == _built_text_string(name[r], new_distance)
        move(v, p) == IF vis THEN set_xy(v, p) ELSE v
    IN  /\ text_render' = [text_render EXCEPT ![r] =
               set_text(move(set_visible(@, vis), text_xy(sc)), str)]
        /\ icon' = [icon EXCEPT ![r] = move(set_visible(@, vis), icon_xy(sc))]
        /\ circle' = [circle EXCEPT ![r] =
               crew_color(move(set_visible(@, vis), circle_xy(sc)), crew_guid[r])]
        /\ distance' = [distance EXCEPT ![r] = new_distance]
        /\ text_str' = [text_str EXCEPT ![r] = str]

\* The branch for a non-empty screen_coords.
update_on_screen(r, sc, new_distance) ==
    LET vis == switch_visible(name[r], new_distance)
        str == _built_text_string(name[r], new_distance)
    IN  /\ text_render' = [text_render EXCEPT ![r] =
               set_text(set_xy(set_visible(@, vis), text_xy(sc)), str)]
        /\ icon' = [icon EXCEPT ![r] = set_xy(set_visible(@, vis), icon_xy(sc))]
        /\ circle' = [circle EXCEPT ![r] =
               crew_color(set_xy(set_visible(@, vis), circle_xy(sc)), crew_guid[r])]
        /\ distance' = [distance EXCEPT ![r] = new_distance]
        /\ text_str' = [text_str EXCEPT ![r] = str]

\* A slip: the icon is left as it was.
update_off_screen_keeps_icon(r) ==
    /\ text_render' = [text_render EXCEPT ![r] = set_visible(@, FALSE)]
    /\ circle' = [circle EXCEPT ![r] = set_visible(@, FALSE)]
    /\ UNCHANGED <<icon, distance, text_str>>

\* A slip: the hidden visuals are moved to the origin.
update_off_screen_resets_xy(r) ==
    /\ text_render' = [text_render EXCEPT ![r] = set_xy(set_visible(@, FALSE), <<0, 0>>)]
    /\ circle' = [circle EXCEPT ![r] = set_xy(set_visible(@, FALSE), <<0, 0>>)]
    /\ icon' = [icon EXCEPT ![r] = set_xy(set_visible(@, FALSE), <<0, 0>>)]
    /\ UNCHANGED <<distance, text_str>>

\* The branch for an empty screen_coords.
update_off_screen(r) ==
    /\ text_render' = [text_render EXCEPT ![r] = set_visible(@, FALSE)]
    /\ circle' = [circle EXCEPT ![r] = set_visible(@, FALSE)]
    /\ icon' = [icon EXCEPT ![r] = set_visible(@, FALSE)]
    /\ UNCHANGED <<distance, text_str>>

\* A slip: the visuals are placed from the screen_coords of the call before
\* when there is one.
update_matched_stale_screen(r, mc, c) ==
    LET new_distance == calculate_distance(c, mc)
        sc == object_to_screen(mc, c)
        old == IF screen_coords[r] # <<>> THEN screen_coords[r] ELSE sc
    IN  /\ my_coords' = [my_coords EXCEPT ![r] = mc]
        /\ coords' = [coords EXCEPT ![r] = c]
        /\ screen_coords' = [screen_coords EXCEPT ![r] = sc]
        /\ IF sc # <<>> THEN update_on_screen(r, old, new_distance)
                        ELSE update_off_screen(r)
        /\ UNCHANGED to_delete

\* A slip: a passed identity check clears to_delete.
update_matched_unmarks(r, mc, c) ==
    LET new_distance == calculate_distance(c, mc)
        sc == object_to_screen(mc, c)
    IN  /\ my_coords' = [my_coords EXCEPT ![r] = mc]
        /\ coords' = [coords EXCEPT ![r] = c]
        /\ screen_coords' = [screen_coords EXCEPT ![r] = sc]
        /\ IF sc # <<>> THEN update_on_screen(r, sc, new_distance)
                        ELSE update_off_screen(r)
        /\ to_delete' = [to_delete EXCEPT ![r] = FALSE]

\* The identity check passed: read the position, project, and redraw.
update_matched(r, mc, c) ==
    LET new_distance == calculate_distance(c, mc)
        sc == object_to_screen(mc, c)
    IN  /\ my_coords' = [my_coords EXCEPT ![r] = mc]
        /\ coords' = [coords EXCEPT ![r] = c]
        /\ screen_coords' = [screen_coords EXCEPT ![r] = sc]
        /\ IF sc # <<>> THEN update_on_screen(r, sc, new_distance)
                        ELSE update_off_screen(r)
        /\ UNCHANGED to_delete

\* A slip: a failed identity check adopts the actor id it read.
update_adopts_actor_id(r) ==
    \E id \in ActorIds, mc \in Viewers, c \in WorldCoords :
        /\ IF id # actor_id[r]
           THEN /\ update_mismatch(r)
                /\ last' = [last EXCEPT ![r] = "mismatch"]
                /\ actor_id' = [actor_id EXCEPT ![r] = id]
           ELSE /\ update_matched(r, mc, c)
                /\ last' = [last EXCEPT ![r] = "updated"]
                /\ UNCHANGED actor_id
        /\ UNCHANGED <<address, actor_root_comp_ptr, name, crew_guid, tracker>>

\* update(my_coords), with the actor id and the position read from memory.
update(r) ==
    \E id \in ActorIds, mc \in Viewers, c \in WorldCoords :
        /\ IF id # actor_id[r]
           THEN update_mismatch(r) /\ last' = [last EXCEPT ![r] = "mismatch"]
           ELSE update_matched(r, mc, c) /\ last' = [last EXCEPT ![r] = "updated"]
        /\ UNCHANGED <<identity, tracker>>

\* update(my_coords) when the read of the actor id, or of the position,
\* fails with an access error: nothing in update() catches it.
update_access_error(r) ==
    \E mc \in Viewers, in_identity_read \in BOOLEAN :
        /\ my_coords' = IF in_identity_read THEN my_coords
                        ELSE [my_coords EXCEPT ![r] = mc]
        /\ last' = [last EXCEPT ![r] = "access_error"]
        /\ UNCHANGED <<identity, coords, distance, screen_coords, text_str,
                       text_render, circle, icon, to_delete, tracker>>

\* A slip: the circle is disposed twice and the icon never.
_delete_circle_twice(r) ==
    /\ text_render' = [text_render EXCEPT ![r] = delete(@)]
    /\ circle' = [circle EXCEPT ![r] = delete(delete(@))]
    /\ last' = [last EXCEPT ![r] = "deleted"]
    /\ UNCHANGED <<identity, icon, my_coords, coords, distance, screen_coords,
                   text_str, to_delete, tracker>>

\* A slip: _delete() marks the record.
_delete_marks(r) ==
    /\ text_render' = [text_render EXCEPT ![r] = delete(@)]
    /\ circle' = [circle EXCEPT ![r] = delete(@)]
    /\ icon' = [icon EXCEPT ![r] = delete(@)]
    /\ to_delete' = [to_delete EXCEPT ![r] = TRUE]
    /\ last' = [last EXCEPT ![r] = "deleted"]
    /\ UNCHANGED <<identity, my_coords, coords, distance, screen_coords,
                   text_str, tracker>>

(* ShipModule._delete                                                      *)
_delete(r) ==
    /\ text_render' = [text_render EXCEPT ![r] = delete(@)]
    /\ circle' = [circle EXCEPT ![r] = delete(@)]
    /\ icon' = [icon EXCEPT ![r] = delete(@)]
    /\ last' = [last EXCEPT ![r] = "deleted"]
    /\ UNCHANGED <<identity, my_coords, coords, distance, screen_coords,
                   text_str, to_delete, tracker>>

(* Crew.tracker is rebuilt by the crew module between frames.              *)
crew_update ==
    /\ tracker' \in Trackers \ {tracker}
    /\ UNCHANGED <<identity, my_coords, coords, distance, screen_coords,
                   text_str, text_render, circle, icon, to_delete, last>>

\* Any sequence of calls on the records.
Next ==
    \/ \E r \in Records : update(r)
    \/ \E r \in Records : update_access_error(r)
    \/ \E r \in Records : _delete(r)
    \/ crew_update

Spec == Init /\ [][Next]_vars

\* The registry's use of a record: it drops a record that is marked
\* to_delete or that it has disposed with _delete(), and calls it no more.
dropped(r) == to_delete[r] \/ last[r] = "deleted"

NextRegistry ==
    \/ \E r \in Records : ~dropped(r) /\ update(r)
    \/ \E r \in Records : ~dropped(r) /\ update_access_error(r)
    \/ \E r \in Records : ~dropped(r) /\ _delete(r)
    \/ crew_update

SpecRegistry == InitPair /\ [][NextRegistry]_vars

-----------------------------------------------------------------------------
(* Vocabulary of the properties                                            *)

visuals(r) == <<text_render[r], circle[r], icon[r]>>

all_visible(r) == \A i \in 1..3 : visuals(r)[i].visible

none_visible(r) == \A i \in 1..3 : ~visuals(r)[i].visible

xy(v) == <<v.x, v.y>>

\* The fields of one record, and how its last call ended.
fields(r) == <<my_coords[r], coords[r], distance[r], screen_coords[r],
               text_str[r], text_render[r], circle[r], icon[r], to_delete[r],
               last[r]>>

\* The step is a call on record r that ended in the way `how`.
call(r, how) == fields(r)' # fields(r) /\ last'[r] = how

\* C1: after update() on both records of the pair with non-empty
\* screen_coords and the same distance, at most one of the two records has
\* its visuals visible.
C1_AtMostOneOfPairVisible ==
    ( /\ Records = Ships
      /\ \A r \in Ships : last[r] = "updated" /\ screen_coords[r] # <<>>
      /\ distance["near"] = distance["far"] )
    => ~(all_visible("near") /\ all_visible("far"))

\* C2: at the end of an update() that passed the identity check the three
\* visuals are all invisible, or all visible and placed at the fixed offsets
\* from the screen_coords of that call.
C2_AllOrNothing ==
    \A r \in Records :
        last[r] = "updated" =>
            \/ none_visible(r)
            \/ /\ all_visible(r)
               /\ screen_coords[r] # <<>>
               /\ LET sx == screen_coords[r][1]
                      sy == screen_coords[r][2]
                  IN  /\ xy(circle[r]) = <<sx * 100 - 1250, sy * 100 - 1250>>
                      /\ xy(icon[r]) = <<sx * 100 - 3625, sy * 100 - 3625>>
                      /\ xy(text_render[r]) = <<sx * 100 + 2250, sy * 100 - 1750>>

C2_Witness ==
    \E r \in Records :
        /\ last[r] = "updated" /\ all_visible(r)
        /\ screen_coords[r] = <<875, 400>>
        /\ xy(circle[r]) = <<86250, 38750>>

\* C3: an update() that computes a distance of exactly 1750 with non-empty
\* screen_coords shows the far record and hides the near record.
C3_TieShowsFarOnly ==
    \A r \in Records :
        (last[r] = "updated" /\ screen_coords[r] # <<>> /\ distance[r] = 1750)
        => IF name[r] = NearName THEN none_visible(r) ELSE all_visible(r)

\* C4: an update() that finds another actor id at self.address sets
\* to_delete, calls delete() on each of the three visuals, and changes
\* nothing else of the record; it returns normally.
C4_MismatchFrame ==
    [][\A r \in Records :
          call(r, "mismatch") =>
              /\ to_delete'[r] = TRUE
              /\ \A i \in 1..3 :
                    /\ visuals(r)'[i].deleted > 0
                    /\ \/ visuals(r)'[i].deleted = visuals(r)[i].deleted + 1
                       \/ visuals(r)[i].deleted = MaxDeletes
                    /\ visuals(r)'[i] =
                           [visuals(r)[i] EXCEPT !.deleted = visuals(r)'[i].deleted]
              /\ <<my_coords[r], coords[r], distance[r], screen_coords[r],
                   text_str[r]>>' =
                 <<my_coords[r], coords[r], distance[r], screen_coords[r],
                   text_str[r]>>]_vars

C4_Witness ==
    \E r \in Records :
        /\ last[r] = "mismatch" /\ to_delete[r]
        /\ \A i \in 1..3 : visuals(r)[i].deleted = 1
        /\ all_visible(r)

\* C5 as stated: over any sequence of update() and _delete() calls each
\* visual is disposed at most once and is never written after its disposal.
C5_DisposedOnceAnySequence ==
    \A r \in Records : \A i \in 1..3 :
        visuals(r)[i].deleted <= 1 /\ ~visuals(r)[i].used_after_delete

\* C5, amended: a call on a record whose visuals are not yet disposed
\* disposes each visual at most once and writes to none after disposing it;
\* so the property holds of every sequence of calls that ends with the call
\* that disposes the visuals.
C5_DisposedOnceUntilDropped ==
    [][\A r \in Records :
          (\A i \in 1..3 : visuals(r)[i].deleted = 0) =>
              \A i \in 1..3 :
                  /\ visuals(r)'[i].deleted <= 1
                  /\ ~visuals(r)'[i].used_after_delete]_vars

C5_Witness ==
    \E r \in Records :
        /\ last[r] = "deleted" /\ ~to_delete[r]
        /\ \A i \in 1..3 :
              visuals(r)[i].deleted = 1 /\ ~visuals(r)[i].used_after_delete

\* C6 as stated: at the end of every update() that passed the identity check
\* self.distance is the distance between the coordinates just read and the
\* my_coords of the call.
C6_DistanceAlwaysStored ==
    \A r \in Records :
        last[r] = "updated" =>
            distance[r] = calculate_distance(coords[r], my_coords[r])

\* C6, amended: an update() that passed the identity check stores that
\* distance when screen_coords is non-empty, and leaves self.distance as it
\* was when screen_coords is empty.
C6_DistanceStoredOnScreen ==
    [][\A r \in Records :
          call(r, "updated") =>
              IF screen_coords'[r] # <<>>
              THEN distance'[r] = calculate_distance(coords'[r], my_coords'[r])
              ELSE distance'[r] = distance[r]]_vars

C6_Witness ==
    \E r \in Records :
        /\ last[r] = "updated" /\ screen_coords[r] # <<>>
        /\ my_coords[r].x = 350 /\ distance[r] = 1399

\* C7: for an on-screen record that passed the identity check, the near
\* record is shown below 1750 and hidden above it, the far record is hidden
\* below 1750 and shown above it.
C7_NearFarSwitch ==
    \A r \in Records :
        (last[r] = "updated" /\ screen_coords[r] # <<>>) =>
            /\ (name[r] = NearName /\ distance[r] < 1750) => all_visible(r)
            /\ (name[r] = NearName /\ distance[r] > 1750) => none_visible(r)
            /\ (name[r] = FarName /\ distance[r] < 1750) => none_visible(r)
            /\ (name[r] = FarName /\ distance[r] > 1750) => all_visible(r)

C7_Witness ==
    \E r \in Records :
        /\ last[r] = "updated" /\ screen_coords[r] # <<>>
        /\ name[r] = NearName /\ distance[r] = 1751 /\ none_visible(r)

\* C8: an update() whose projection is empty makes the three visuals
\* invisible and leaves their x and y as they were.
C8_OffScreenHidesAndKeepsPosition ==
    [][\A r \in Records :
          (call(r, "updated") /\ screen_coords'[r] = <<>>) =>
              /\ none_visible(r)'
              /\ \A i \in 1..3 : xy(visuals(r)[i])' = xy(visuals(r)[i])]_vars

C8_Witness ==
    \E r \in Records :
        /\ last[r] = "updated" /\ screen_coords[r] = <<>> /\ none_visible(r)
        /\ name[r] = NearName /\ distance[r] = 1749
        /\ xy(circle[r]) = <<48750, 38750>>

\* C9: to_delete is set by a failed identity check and, once True, stays
\* True through every later update() and _delete().
C9_ToDeleteSticks ==
    [][\A r \in Records :
          (to_delete[r] \/ call(r, "mismatch")) => to_delete'[r]]_vars

C9_Witness ==
    \E r \in Records :
        /\ to_delete[r] /\ last[r] = "updated"
        /\ \A i \in 1..3 : visuals(r)[i].deleted = 1

\* C10: an access error in a memory read of update() ends in the record
\* being marked for removal with its visuals disposed.
C10_AccessErrorMarksRecord ==
    \A r \in Records :
        last[r] = "access_error" =>
            to_delete[r] /\ \A i \in 1..3 : visuals(r)[i].deleted >= 1

\* The x, y of the circle, the icon and the label.
positions(r) == <<xy(circle[r]), xy(icon[r]), xy(text_render[r])>>

\* Where update() puts them for screen_coords sc: the circle 12.5 left and
\* below, the icon 36.25 left and below, the label 22.5 right and 17.5 below.
placed(sc) == << <<sc[1] * 100 - 1250, sc[2] * 100 - 1250>>,
                 <<sc[1] * 100 - 3625, sc[2] * 100 - 3625>>,
                 <<sc[1] * 100 + 2250, sc[2] * 100 - 1750>> >>

visible_flags(r) == <<text_render[r].visible, circle[r].visible, icon[r].visible>>

\* The number a sequence of decimal digits writes, -1 when it is none.
RECURSIVE decimal(_)
decimal(ds) ==
    IF ds = <<>> THEN -1
    ELSE LET d == CHOOSE k \in -1..9 :
                    IF \E j \in 0..9 : Digit(j) = ds[Len(ds)]
                    THEN k >= 0 /\ Digit(k) = ds[Len(ds)]
                    ELSE k = -1
         IN  IF d = -1 THEN -1
             ELSE IF Len(ds) = 1 THEN d
             ELSE IF decimal(SubSeq(ds, 1, Len(ds) - 1)) = -1 THEN -1
             ELSE 10 * decimal(SubSeq(ds, 1, Len(ds) - 1)) + d

\* t reads "<n> - <d>m".
reads(t, n, d) ==
    /\ Len(t) > Len(n) + 4
    /\ SubSeq(t, 1, Len(n)) = n
    /\ SubSeq(t, Len(n) + 1, Len(n) + 3) = <<" ", "-", " ">>
    /\ t[Len(t)] = "m"
    /\ decimal(SubSeq(t, Len(n) + 4, Len(t) - 1)) = d
    /\ (t[Len(n) + 4] = "0" => d = 0)

\* C11: an update() that passed the identity check, called again with the
\* my_coords and the world position of the update() before it, leaves
\* screen_coords, distance, the visibility flags and the positions of the
\* visuals as the first call left them.
C11_UpdateIdempotent ==
    [][\A r \in Records :
          ( /\ last[r] = "updated" /\ last'[r] = "updated"
            /\ my_coords'[r] = my_coords[r] /\ coords'[r] = coords[r] )
          => /\ screen_coords'[r] = screen_coords[r]
             /\ distance'[r] = distance[r]
             /\ visible_flags(r)' = visible_flags(r)
             /\ positions(r)' = positions(r)]_vars

C11_Witness ==
    \E r \in Records :
        /\ last[r] = "updated" /\ screen_coords[r] = <<1000, 400>>
        /\ distance[r] = 1484 /\ positions(r) = placed(<<1000, 400>>)
        /\ name[r] = FarName /\ none_visible(r)

\* C12: in every update() that passed the identity check screen_coords is
\* the projection of the coordinates and my_coords of that call, and the
\* positions the call writes are the offsets from that screen_coords; with
\* an empty projection it writes no position.
C12_PositionsFromFreshProjection ==
    [][\A r \in Records :
          call(r, "updated") =>
              /\ screen_coords'[r] = object_to_screen(my_coords'[r], coords'[r])
              /\ IF screen_coords'[r] # <<>>
                 THEN positions(r)' = placed(screen_coords'[r])
                 ELSE positions(r)' = positions(r)]_vars

C12_Witness ==
    \E r \in Records :
        /\ last[r] = "updated" /\ my_coords[r].x = 350 /\ coords[r].y = 1050
        /\ screen_coords[r] = <<1000, 400>>
        /\ xy(icon[r]) = <<96375, 36375>>

\* C13: after an update() that leaves the visuals visible with
\* screen_coords (sx, sy) and distance d, the circle is at
\* (sx - 12.5, sy - 12.5), the label at (sx + 22.5, sy - 17.5), the icon at
\* (sx, sy) less 1.45 times the circle size, and the label reads
\* "<name> - <d>m".
C13_VisiblePlacedAndLabelled ==
    \A r \in Records :
        (last[r] = "updated" /\ all_visible(r)) =>
            /\ screen_coords[r] # <<>>
            /\ positions(r) = placed(screen_coords[r])
            /\ xy(icon[r]) = <<screen_coords[r][1] * 100 - 145 * CIRCLE_SIZE,
                              screen_coords[r][2] * 100 - 145 * CIRCLE_SIZE>>
            /\ reads(text_render[r].text, name[r], distance[r])
            /\ distance[r] = calculate_distance(coords[r], my_coords[r])

C13_Witness ==
    \E r \in Records :
        /\ last[r] = "updated" /\ all_visible(r) /\ name[r] = NearName
        /\ screen_coords[r] = <<500, 400>> /\ distance[r] = 1749
        /\ xy(circle[r]) = <<48750, 38750>>
        /\ text_render[r].text =
               <<"S","l","o","o","p"," ","(","N","e","a","r",")",
                 " ","-"," ","1","7","4","9","m">>

\* C14: an update() with non-empty screen_coords sets the colour of the
\* circle to the first three components of the colour Crew.tracker holds for
\* crew_guid, and leaves the colour as it was when crew_guid is not in
\* Crew.tracker; the call ends normally either way.
C14_CrewColour ==
    [][\A r \in Records :
          (call(r, "updated") /\ screen_coords'[r] # <<>>) =>
              IF crew_guid[r] \in DOMAIN tracker
              THEN circle'[r].color = <<tracker[crew_guid[r]][1],
                                        tracker[crew_guid[r]][2],
                                        tracker[crew_guid[r]][3]>>
              ELSE circle'[r].color = circle[r].color]_vars

C14_Witness ==
    \E r \in Records :
        /\ last[r] = "updated" /\ screen_coords[r] # <<>>
        /\ tracker = <<>> /\ circle[r].color = <<255, 0, 0>>
        /\ my_coords[r].x = 350

\* C15: no update() and no _delete() changes actor_id, address,
\* actor_root_comp_ptr, name or crew_guid: they keep the values the
\* constructor gave them.
C15_IdentityImmutable ==
    [][\A r \in Records :
          /\ actor_id'[r] = actor_id[r]
          /\ address'[r] = address[r]
          /\ actor_root_comp_ptr'[r] = actor_root_comp_ptr[r]
          /\ name'[r] = name[r]
          /\ crew_guid'[r] = crew_guid[r]]_vars

C15_Witness ==
    \E r \in Records :
        /\ last[r] = "deleted" /\ to_delete[r] /\ circle[r].used_after_delete
        /\ actor_id[r] = ShipActorId(r) /\ address[r] = ShipAddress(r)
        /\ actor_root_comp_ptr[r] = ShipAddress(r) + 8
        /\ name[r] = ShipName(r) /\ crew_guid[r] = CrewGuid

\* C16: in every state after construction and any calls, text_str reads
\* "<name> - <distance>m" for the current self.distance, and the label
\* shows text_str.
C16_TextMatchesDistance ==
    \A r \in Records :
        /\ reads(text_str[r], name[r], distance[r])
        /\ text_render[r].text = text_str[r]

C16_Witness ==
    \E r \in Records :
        /\ last[r] = "updated" /\ screen_coords[r] = <<>>
        /\ distance[r] = 1484
        /\ distance[r] # calculate_distance(coords[r], my_coords[r])
        /\ text_str[r] = name[r] \o <<" ","-"," ","1","4","8","4","m">>

\* C17: to_delete is False after construction and becomes True only in an
\* update() that failed the identity check; an off-screen projection, the
\* distance switch and _delete() never set it.
C17_OnlyMismatchMarks ==
    /\ \A r \in Records : ~to_delete[r]
    /\ [][\A r \in Records :
             (to_delete'[r] /\ ~to_delete[r]) => last'[r] = "mismatch"]_vars

C17_Witness ==
    \E r \in Records :
        /\ to_delete[r] /\ last[r] = "mismatch" /\ none_visible(r)
        /\ screen_coords[r] # <<>>

====
